---------------------------- MODULE Spec2Model ----------------------------
(***************************************************************************)
(* Model of the out-of-core data layer of organoid-classification          *)
(* (src/src/models/lib/data.py):                                           *)
(*   - FastTensorDataLoader   (bulk-tensor batch iterator)                 *)
(*   - clean_sample           (feature alignment)                          *)
(*   - generate_datasets      (two-stage stratified split + concatenation) *)
(*   - GeneExpressionData     (disk-indexed positional sample access)      *)
(*                                                                         *)
(* Python positions are 0-based; TLA+ sequences are 1-based.  Cursors,     *)
(* row numbers, label-table positions and line numbers keep the values the *)
(* Python code computes; only the subscripts of TLA+ sequences add one.    *)
(***************************************************************************)
EXTENDS Integers, Sequences, FiniteSets, TLC

VARIABLES
    \* ---- FastTensorDataLoader instance ----
    tensors,        \* self.tensors: <<features, labels>>, two sequences of equal length
    dataset_len,    \* self.dataset_len
    batch_size,     \* self.batch_size
    shuffle,        \* self.shuffle
    n_batches,      \* self.n_batches
    i,              \* self.i (NoCursor until the first __iter__)
    lpc,            \* "constructed" | "iterating" | "stopped" (StopIteration raised)
    batches,        \* batches returned by __next__ since the last __iter__
    \* ---- one call of clean_sample ----
    sample,         \* [ndim, row]: the values of one row along the feature axis
    refgenes,       \* reference feature names
    currgenes,      \* native feature names of the sample's source
    cleaned,        \* the returned tensor (same shape convention), or NoResult
    \* ---- the two-stage split of generate_datasets, per-class row counts ----
    class_counts,   \* rows of each label class in one label file
    test_prop,      \* test_prop as <<numerator, denominator>>
    strat,          \* NoResult, or the outcome of the two train_test_split calls
    \* ---- files on disk, GeneExpressionData, generate_datasets ----
    sources,        \* the (label file, data file) pairs: [labels, lines]
    dataset,        \* a GeneExpressionData instance built directly, or NoResult
    last,           \* outcome of the last __getitem__ call, or NoResult
    train_datasets, \* generate_datasets: per-source instances of the train split
    val_datasets,   \*   ... of the val split
    test_datasets,  \*   ... of the test split
    returned,       \* generate_datasets: NoResult, the returned (train, val, test), or the error
    gen_test_prop,  \* generate_datasets: test_prop as <<numerator, denominator>>
    \* ---- cached properties, generate_loaders ----
    class_weights,  \* dataset.class_weights once computed (cached_property), or NoResult
    loaders,        \* generate_loaders(collocate=True): NoResult, or the returned loaders
    \* ---- linecache and the GeneExpressionData instances reading through it ----
    disk,           \* the data files on disk: filename -> lines
    cache,          \* linecache.cache, module level: filename -> lines, for the files read
    readers,        \* the GeneExpressionData instances of the process: [filename, skip]
    seen,           \* per instance, the files it has read so far (history)
    lastread,       \* outcome of the last linecache.getline, or NoResult
    \* ---- repeated calls on the same objects ----
    calls,          \* the tensors returned by the successive clean_sample calls on one input
    built,          \* the GeneExpressionData instance as __init__ left it, or NoResult
    memo,           \* the cached_property values stored in the instance: name -> value
    answers,        \* per call made on the instance, what its first evaluation gave (history)
    consumers       \* per consumer iterating one FastTensorDataLoader: its pass so far

loaderVars == <<tensors, dataset_len, batch_size, shuffle, n_batches, i, lpc, batches>>
alignVars == <<sample, refgenes, currgenes, cleaned>>
stratVars == <<class_counts, test_prop, strat>>
dataVars == <<sources, dataset, last>>
genVars == <<train_datasets, val_datasets, test_datasets, returned, gen_test_prop>>
weightVars == <<class_weights>>
collocateVars == <<loaders>>
cacheVars == <<disk, cache, readers, seen, lastread>>
repeatVars == <<calls>>
frozenVars == <<built, memo, answers>>
sharedVars == <<consumers>>
callVars == <<repeatVars, frozenVars, sharedVars>>

vars == <<loaderVars, alignVars, stratVars, dataVars, genVars, weightVars, collocateVars,
          cacheVars, callVars>>

notLoaderVars == <<alignVars, stratVars, dataVars, genVars, weightVars, collocateVars, cacheVars, callVars>>
notAlignVars == <<loaderVars, stratVars, dataVars, genVars, weightVars, collocateVars, cacheVars, callVars>>
notStratVars == <<loaderVars, alignVars, dataVars, genVars, weightVars, collocateVars, cacheVars, callVars>>

-----------------------------------------------------------------------------
(* Bounds *)
MaxLen == 4         \* largest dataset length given to FastTensorDataLoader
MaxBatch == 3       \* largest batch_size
MaxGenes == 3       \* feature names are 1..MaxGenes, ordered as their names sort
MaxValue == 1       \* expression values are 0..MaxValue
MaxClasses == 4     \* label classes in one label file (count-level split)
MaxStratRows == 20  \* rows of one label file (count-level split)
MaxLabelRows == 2   \* rows of the label file of a directly built GeneExpressionData
MaxCell == 2        \* largest row number in the row-number column
MaxSkip == 3        \* largest skip (the smallest is 2, the default of generate_single_dataset)
MaxDataLines == 2   \* sample lines of a data file
MaxSources == 2     \* (data file, label file) pairs given to generate_datasets
MaxSourceRows == 4  \* label rows of one source given to generate_datasets
MaxTotalRows == 7   \* label rows of all sources of one generate_datasets call

-----------------------------------------------------------------------------
(* Generic helpers *)
Min(a, b) == IF a < b THEN a ELSE b

Range(s) == {s[k] : k \in 1..Len(s)}

RECURSIVE Perms(_)
\* all orderings of a finite set, as sequences
Perms(S) ==
    IF S = {} THEN {<<>>}
    ELSE UNION {{<<x>> \o p : p \in Perms(S \ {x})} : x \in S}

RECURSIVE Flatten(_)
\* concatenation of a sequence of sequences
Flatten(ss) == IF ss = <<>> THEN <<>> ELSE Head(ss) \o Flatten(Tail(ss))

RECURSIVE SumSeq(_)
SumSeq(s) == IF s = <<>> THEN 0 ELSE Head(s) + SumSeq(Tail(s))

\* sequences without repetition over S, of length lo..hi
DistinctSeqs(S, lo, hi) ==
    UNION {Perms(T) : T \in {U \in SUBSET S : Cardinality(U) >= lo /\ Cardinality(U) <= hi}}

\* the elements of a set of integers in ascending order
SortedSeq(S) == SortSeq(CHOOSE p \in Perms(S) : TRUE, LAMBDA a, b : a < b)

\* no value yet (nothing returned, attribute not set)
NoResult == [none |-> TRUE]

\* self.i does not exist before the first __iter__
NoCursor == -1

\* state of the components a specification does not exercise
LoaderIdle ==
    /\ tensors = << <<>>, <<>> >>
    /\ dataset_len = 0
    /\ batch_size = 1
    /\ shuffle = FALSE
    /\ n_batches = 0
    /\ i = NoCursor
    /\ lpc = "constructed"
    /\ batches = <<>>
AlignIdle ==
    /\ sample = [ndim |-> 1, row |-> <<>>]
    /\ refgenes = <<>>
    /\ currgenes = <<>>
    /\ cleaned = NoResult
StratIdle ==
    /\ class_counts = <<>>
    /\ test_prop = <<1, 5>>
    /\ strat = NoResult
GenIdle ==
    /\ train_datasets = <<>>
    /\ val_datasets = <<>>
    /\ test_datasets = <<>>
    /\ returned = NoResult
    /\ gen_test_prop = <<1, 5>>
DataIdle ==
    /\ sources = <<>>
    /\ dataset = NoResult
    /\ last = NoResult
WeightIdle == class_weights = NoResult
CollocateIdle == loaders = NoResult
CacheIdle ==
    /\ disk = <<>>
    /\ cache = <<>>
    /\ readers = <<>>
    /\ seen = <<>>
    /\ lastread = NoResult
RepeatIdle == calls = <<>>
FrozenIdle ==
    /\ built = NoResult
    /\ memo = <<>>
    /\ answers = <<>>
SharedIdle == consumers = <<>>
CallIdle == RepeatIdle /\ FrozenIdle /\ SharedIdle

-----------------------------------------------------------------------------
(***************************************************************************)
(* FastTensorDataLoader                                                    *)
(***************************************************************************)
\* label stored with feature row r at construction
RowLabel(r) == r % 2

\* Python slice t[lo:hi] for 0 <= lo <= hi: positions lo .. min(hi, len)-1
SliceOverlap(t, lo, hi) == SubSeq(t, lo + 1, Min(hi + 1, Len(t)))
Slice(t, lo, hi) == SubSeq(t, lo + 1, Min(hi, Len(t)))

\* t[r] for an index tensor r (0-based row numbers)
IndexBy(t, r) == [k \in 1..Len(r) |-> t[r[k] + 1]]

\* [t[r] for t in self.tensors]
PermuteFirstOnly(ts, r) == [t \in 1..Len(ts) |-> IF t = 1 THEN IndexBy(ts[t], r) ELSE ts[t]]
PermuteAll(ts, r) == [t \in 1..Len(ts) |-> IndexBy(ts[t], r)]

\* n_batches, remainder = divmod(dataset_len, batch_size); +1 when remainder > 0
NBatchesFloor(len, bs) == len \div bs
NBatches(len, bs) ==
    LET q == len \div bs
        remainder == len % bs
    IN  IF remainder > 0 THEN q + 1 ELSE q

\* FastTensorDataLoader(features, labels, batch_size=B, shuffle=sh)
LoaderInit ==
    \E L \in 0..MaxLen, B \in 1..MaxBatch, sh \in BOOLEAN :
        /\ tensors = << [k \in 1..L |-> k - 1], [k \in 1..L |-> RowLabel(k - 1)] >>
        /\ dataset_len = L
        /\ batch_size = B
        /\ shuffle = sh
        /\ n_batches = NBatches(L, B)
        /\ i = NoCursor
        /\ lpc = "constructed"
        /\ batches = <<>>

\* __iter__: optional permutation of every stored tensor, cursor reset
Iter ==
    /\ IF shuffle
       THEN \E r \in Perms(0..(dataset_len - 1)) :
                tensors' = PermuteAll(tensors, r)
       ELSE tensors' = tensors
    /\ i' = 0
    /\ lpc' = "iterating"
    /\ batches' = <<>>
    /\ UNCHANGED <<dataset_len, batch_size, shuffle, n_batches>>
    /\ UNCHANGED notLoaderVars

\* __next__ returning a batch
NextBatch ==
    /\ i # NoCursor
    /\ i < dataset_len
    /\ LET batch == [t \in 1..Len(tensors) |-> Slice(tensors[t], i, i + batch_size)]
       IN  batches' = Append(batches, batch)
    /\ i' = i + batch_size
    /\ lpc' = "iterating"
    /\ UNCHANGED <<tensors, dataset_len, batch_size, shuffle, n_batches>>
    /\ UNCHANGED notLoaderVars

\* __next__ raising StopIteration
NextStop ==
    /\ i # NoCursor
    /\ i >= dataset_len
    /\ lpc' = "stopped"
    /\ UNCHANGED <<tensors, dataset_len, batch_size, shuffle, n_batches, i, batches>>
    /\ UNCHANGED notLoaderVars

InitLoader ==
    LoaderInit /\ AlignIdle /\ StratIdle /\ DataIdle /\ GenIdle /\ WeightIdle /\ CollocateIdle /\ CacheIdle /\ CallIdle
NextLoader == Iter \/ NextBatch \/ NextStop
SpecLoader == InitLoader /\ [][NextLoader]_vars

-----------------------------------------------------------------------------
(***************************************************************************)
(* Claims about FastTensorDataLoader (checked under SpecLoader)            *)
(***************************************************************************)
\* feature rows / labels returned so far in the current pass
YieldedRows == Flatten([k \in 1..Len(batches) |-> batches[k][1]])
YieldedLabels == Flatten([k \in 1..Len(batches) |-> batches[k][2]])

CeilDiv(a, b) == (a + b - 1) \div b

\* C1: one full pass (__iter__, then __next__ until StopIteration) returns
\* every row of the stored tensors exactly once: at every point of the pass
\* the rows returned so far are the first min(i, L) stored rows, in stored
\* order, none repeated; when StopIteration is raised they are all L rows;
\* with shuffle off they are rows 0..L-1 in that order.
C1_FullPassExactlyOnce ==
    lpc # "constructed" =>
        /\ YieldedRows = SubSeq(tensors[1], 1, Min(i, dataset_len))
        /\ YieldedLabels = SubSeq(tensors[2], 1, Min(i, dataset_len))
        /\ Cardinality(Range(YieldedRows)) = Len(YieldedRows)
        /\ lpc = "stopped" =>
              /\ YieldedRows = tensors[1]
              /\ Range(YieldedRows) = 0..(dataset_len - 1)
              /\ ~shuffle => YieldedRows = [k \in 1..dataset_len |-> k - 1]

\* a pass over 4 rows in batches of 3 has ended: batches of 3 and 1 rows
C1_Witness ==
    /\ lpc = "stopped"
    /\ dataset_len = 4
    /\ batch_size = 3
    /\ YieldedRows = <<0, 1, 2, 3>>
    /\ ~shuffle

\* C2: a pass raises StopIteration after exactly ceil(L / B) batches, which
\* is the value __len__ reports; no pass ever returns more batches than
\* that; every batch but the last has B rows and the last has
\* L - B * (ceil(L / B) - 1) rows, between 1 and B.
C2_BatchCountAndSizes ==
    /\ Len(batches) <= n_batches
    /\ lpc = "stopped" =>
          /\ Len(batches) = CeilDiv(dataset_len, batch_size)
          /\ Len(batches) = n_batches
    /\ \A k \in 1..Len(batches) :
          LET rows == Len(batches[k][1])
              lastRows == dataset_len - batch_size * (CeilDiv(dataset_len, batch_size) - 1)
          IN  /\ Len(batches[k][2]) = rows
              /\ k < CeilDiv(dataset_len, batch_size) => rows = batch_size
              /\ k = CeilDiv(dataset_len, batch_size) =>
                    /\ rows = lastRows
                    /\ rows >= 1
                    /\ rows <= batch_size

\* a pass over 3 rows in batches of 2 has ended with a short last batch
C2_Witness ==
    /\ lpc = "stopped"
    /\ dataset_len = 3
    /\ batch_size = 2
    /\ Len(batches) = 2
    /\ Len(batches[2][1]) = 1

\* the stored (feature row, label) pairs, as a bag
StoredPairs == [p \in {<<tensors[1][k], tensors[2][k]>> : k \in 1..Len(tensors[1])} |->
                  Cardinality({k \in 1..Len(tensors[1]) : <<tensors[1][k], tensors[2][k]>> = p})]
\* the pairs given at construction: row r with its label, once each
GivenPairs == [p \in {<<r, RowLabel(r)>> : r \in 0..(dataset_len - 1)} |-> 1]

\* C18: with shuffle on, the stored tensors change only in a step that starts
\* a pass (__iter__: cursor back to 0, nothing returned yet), never in a
\* __next__; every stored label stays the label of the feature row stored at
\* the same position, in the tensors and in every batch returned; and the
\* bag of stored (feature row, label) pairs is the one given at construction.
C18_ShuffleOncePerPassKeepsPairs ==
    /\ [](shuffle =>
            /\ Len(tensors[1]) = dataset_len /\ Len(tensors[2]) = dataset_len
            /\ \A k \in 1..dataset_len : tensors[2][k] = RowLabel(tensors[1][k])
            /\ \A k \in 1..Len(YieldedRows) : YieldedLabels[k] = RowLabel(YieldedRows[k])
            /\ StoredPairs = GivenPairs)
    /\ [][(shuffle /\ tensors' # tensors) => (i' = 0 /\ batches' = <<>>)]_vars

\* a second shuffled pass over 3 rows has ended with the rows stored in an
\* order other than the one given
C18_Witness ==
    /\ shuffle
    /\ lpc = "stopped"
    /\ dataset_len = 3
    /\ tensors[1] = <<1, 2, 0>>
    /\ tensors[2] = <<1, 0, 0>>
    /\ YieldedRows = <<1, 2, 0>>

-----------------------------------------------------------------------------
(***************************************************************************)
(* clean_sample                                                            *)
(***************************************************************************)
Genes == 1..MaxGenes
Values == 0..MaxValue

\* np.intersect1d(ar1, ar2, return_indices=True)[1]: for every common
\* element, in ascending order of the elements, the 0-based position of its
\* first occurrence in ar1
Intersect1dIndices(ar1, ar2) ==
    LET common == SortedSeq(Range(ar1) \cap Range(ar2))
    IN  [k \in 1..Len(common) |->
            (CHOOSE j \in 1..Len(ar1) :
                /\ ar1[j] = common[k]
                /\ \A h \in 1..(j - 1) : ar1[h] # common[k]) - 1]

\* np.sort(row): the values of the row in ascending numeric order
NpSort(row) == SortSeq(row, LAMBDA a, b : a < b)

\* np.take(row, indices): row[indices[k]] for 0-based indices
NpTake(row, indices) == [k \in 1..Len(indices) |-> row[indices[k] + 1]]

\* clean_sample(sample, refgenes, currgenes); axis is the feature axis for
\* both shapes, so sort and take act on each row of values independently
CleanSampleResult(smp, ref, curr) ==
    LET indices == Intersect1dIndices(curr, ref)
        sorted == NpSort(smp.row)
    IN  [ndim |-> smp.ndim, row |-> NpTake(sorted, indices)]

AlignInit ==
    \E curr \in DistinctSeqs(Genes, 1, MaxGenes), ref \in DistinctSeqs(Genes, 0, MaxGenes),
       nd \in {1, 2} :
        \E row \in [1..Len(curr) -> Values] :
            /\ sample = [ndim |-> nd, row |-> row]
            /\ refgenes = ref
            /\ currgenes = curr
            /\ cleaned = NoResult

CleanSample ==
    /\ cleaned = NoResult
    /\ cleaned' = CleanSampleResult(sample, refgenes, currgenes)
    /\ UNCHANGED <<sample, refgenes, currgenes>>
    /\ UNCHANGED notAlignVars

InitAlign ==
    AlignInit /\ LoaderIdle /\ StratIdle /\ DataIdle /\ GenIdle /\ WeightIdle /\ CollocateIdle /\ CacheIdle /\ CallIdle
NextAlign == CleanSample
SpecAlign == InitAlign /\ [][NextAlign]_vars

\* position (1-based) of name g in the list genes
PosIn(genes, g) == CHOOSE j \in 1..Len(genes) : genes[j] = g

\* C3: for distinct native names and a reference list that is a subset of
\* them, the k-th output value is the row's value for the k-th reference
\* feature in lexicographic order: the values follow the permutation that
\* sorts the column names, never their own numeric order.
C3_AlignedByNamePermutation ==
    (cleaned # NoResult /\ Range(refgenes) \subseteq Range(currgenes)) =>
        LET ref == SortedSeq(Range(refgenes))
        IN  /\ cleaned.ndim = sample.ndim
            /\ cleaned.row = [k \in 1..Len(ref) |-> sample.row[PosIn(currgenes, ref[k])]]

\* C15: when the native names and a non-empty reference list share no name,
\* clean_sample fails: it returns no aligned vector, in particular not an
\* empty one.
C15_EmptyIntersectionFails ==
    (cleaned # NoResult /\ refgenes # <<>> /\ Range(currgenes) \cap Range(refgenes) = {}) =>
        "row" \notin DOMAIN cleaned

-----------------------------------------------------------------------------
(***************************************************************************)
(* Several consumers iterating one FastTensorDataLoader.  __iter__ returns *)
(* self, so every iterator is the loader and they all read and write the   *)
(* one cursor self.i and the one self.tensors.                             *)
(***************************************************************************)
MaxSharedLen == 2   \* largest dataset length of a loader with several consumers
MaxExtraRows == 1   \* a consumer gives up after dataset_len + MaxExtraRows rows
Consumers == {1, 2}

\* self.i = 0 in __iter__
CursorKept(cur) == IF cur = NoCursor THEN 0 ELSE cur
CursorAfterIter(cur) == 0

\* a consumer that has not called iter(loader) yet
NotStarted == [state |-> "idle", got |-> <<>>, disturbed |-> FALSE, reset |-> FALSE]

SharedInit ==
    \E L \in 1..MaxSharedLen, B \in 1..MaxBatch, sh \in BOOLEAN :
        /\ tensors = << [k \in 1..L |-> k - 1], [k \in 1..L |-> RowLabel(k - 1)] >>
        /\ dataset_len = L
        /\ batch_size = B
        /\ shuffle = sh
        /\ n_batches = NBatches(L, B)
        /\ i = NoCursor
        /\ lpc = "constructed"
        /\ batches = <<>>
        /\ consumers = [c \in Consumers |-> NotStarted]

\* consumer c evaluates iter(loader): a pass of its own starts, and every
\* other consumer's pass in progress is cut across
IterBy(c) ==
    /\ IF shuffle
       THEN \E r \in Perms(0..(dataset_len - 1)) : tensors' = PermuteAll(tensors, r)
       ELSE tensors' = tensors
    /\ i' = CursorAfterIter(i)
    /\ lpc' = "iterating"
    /\ batches' = <<>>
    /\ consumers' = [d \in Consumers |->
                       IF d = c
                       THEN [state |-> "iterating", got |-> <<>>, disturbed |-> FALSE,
                             reset |-> FALSE]
                       ELSE IF consumers[d].state = "iterating"
                       THEN [consumers[d] EXCEPT !.disturbed = TRUE, !.reset = TRUE]
                       ELSE consumers[d]]
    /\ UNCHANGED <<dataset_len, batch_size, shuffle, n_batches>>
    /\ UNCHANGED <<alignVars, stratVars, dataVars, genVars, weightVars, collocateVars, cacheVars>>
    /\ UNCHANGED <<repeatVars, frozenVars>>

\* consumer c evaluates next(loader) in its pass and receives a batch
NextBatchBy(c) ==
    /\ consumers[c].state = "iterating"
    /\ Len(consumers[c].got) < dataset_len + MaxExtraRows
    /\ i < dataset_len
    /\ LET batch == [t \in 1..Len(tensors) |-> Slice(tensors[t], i, i + batch_size)]
       IN  /\ batches' = Append(batches, batch)
           /\ consumers' = [d \in Consumers |->
                              IF d = c
                              THEN [consumers[d] EXCEPT !.got = @ \o batch[1]]
                              ELSE IF consumers[d].state = "iterating"
                              THEN [consumers[d] EXCEPT !.disturbed = TRUE]
                              ELSE consumers[d]]
    /\ i' = i + batch_size
    /\ lpc' = "iterating"
    /\ UNCHANGED <<tensors, dataset_len, batch_size, shuffle, n_batches>>
    /\ UNCHANGED <<alignVars, stratVars, dataVars, genVars, weightVars, collocateVars, cacheVars>>
    /\ UNCHANGED <<repeatVars, frozenVars>>

\* consumer c evaluates next(loader) in its pass and gets StopIteration
NextStopBy(c) ==
    /\ consumers[c].state = "iterating"
    /\ i >= dataset_len
    /\ lpc' = "stopped"
    /\ consumers' = [consumers EXCEPT ![c].state = "stopped"]
    /\ UNCHANGED <<tensors, dataset_len, batch_size, shuffle, n_batches, i, batches>>
    /\ UNCHANGED <<alignVars, stratVars, dataVars, genVars, weightVars, collocateVars, cacheVars>>
    /\ UNCHANGED <<repeatVars, frozenVars>>

InitShared ==
    /\ SharedInit
    /\ AlignIdle /\ StratIdle /\ DataIdle /\ GenIdle /\ WeightIdle /\ CollocateIdle /\ CacheIdle
    /\ RepeatIdle /\ FrozenIdle
NextShared ==
    \/ \E c \in Consumers : IterBy(c)
    \/ \E c \in Consumers : NextBatchBy(c)
    \/ \E c \in Consumers : NextStopBy(c)
SpecShared == InitShared /\ [][NextShared]_vars

\* a step in which some consumer's own pass starts
IterStep ==
    \E c \in Consumers :
        /\ consumers'[c] # consumers[c]
        /\ consumers'[c].state = "iterating"
        /\ consumers'[c].got = <<>>
        /\ ~consumers'[c].disturbed

\* C23: every __iter__, whichever consumer calls it and whatever pass is in
\* progress, puts the one shared cursor back to 0 (and with shuffle on stores
\* a permutation of the rows, with shuffle off leaves them); a consumer whose
\* pass ran to StopIteration with no call by another consumer in between has
\* received every stored row exactly once.
C23_SharedCursorResetByIter ==
    /\ [](\A c \in Consumers :
            (consumers[c].state = "stopped" /\ ~consumers[c].disturbed) =>
                /\ Len(consumers[c].got) = dataset_len
                /\ Range(consumers[c].got) = 0..(dataset_len - 1))
    /\ [][IterStep =>
            /\ i' = 0
            /\ Range(tensors'[1]) = Range(tensors[1])
            /\ ~shuffle => tensors' = tensors]_vars

\* consumer 1's pass over rows 0, 1 (batches of 1, no shuffle) was cut across
\* by consumer 2's __iter__ after one batch: consumer 1 received row 0 twice
C23_Witness ==
    /\ ~shuffle
    /\ dataset_len = 2
    /\ batch_size = 1
    /\ consumers[1].state = "stopped"
    /\ consumers[1].reset
    /\ consumers[1].got = <<0, 0, 1>>

-----------------------------------------------------------------------------
(***************************************************************************)
(* clean_sample called repeatedly on the same arguments.  The function     *)
(* keeps no state; np.intersect1d works on copies of the two name lists,   *)
(* and line 195 rebinds the local name sample to the sorted copy np.sort   *)
(* returns, so the caller's array is not written.                          *)
(***************************************************************************)
MaxCalls == 2       \* clean_sample calls made on one input
MaxRepeatGenes == 2 \* feature names of the repeated calls are 1..MaxRepeatGenes

\* the caller's array after line 195: np.sort(sample, axis) sorts a copy
ArgumentSortedInPlace(smp) == [ndim |-> smp.ndim, row |-> NpSort(smp.row)]
ArgumentAfterSort(smp) == smp

\* one more clean_sample(sample, refgenes, currgenes) on the same objects
CleanSampleAgain ==
    /\ Len(calls) < MaxCalls
    /\ calls' = Append(calls, [indices |-> Intersect1dIndices(currgenes, refgenes),
                               out |-> CleanSampleResult(sample, refgenes, currgenes)])
    /\ sample' = ArgumentAfterSort(sample)
    /\ UNCHANGED <<refgenes, currgenes, cleaned>>
    /\ UNCHANGED <<loaderVars, stratVars, dataVars, genVars, weightVars, collocateVars, cacheVars>>
    /\ UNCHANGED <<frozenVars, sharedVars>>

\* the arguments of the repeated calls: one row, names drawn from 1..MaxRepeatGenes
RepeatInit ==
    \E curr \in DistinctSeqs(1..MaxRepeatGenes, 1, MaxRepeatGenes),
       ref \in DistinctSeqs(1..MaxRepeatGenes, 0, MaxRepeatGenes), nd \in {1, 2} :
        \E row \in [1..Len(curr) -> Values] :
            /\ sample = [ndim |-> nd, row |-> row]
            /\ refgenes = ref
            /\ currgenes = curr
            /\ cleaned = NoResult
            /\ calls = <<>>

InitRepeat ==
    /\ RepeatInit
    /\ LoaderIdle /\ StratIdle /\ DataIdle /\ GenIdle /\ WeightIdle /\ CollocateIdle /\ CacheIdle
    /\ FrozenIdle /\ SharedIdle
NextRepeat == CleanSampleAgain
SpecRepeat == InitRepeat /\ [][NextRepeat]_vars

-----------------------------------------------------------------------------
(***************************************************************************)
(* train_test_split(labels, stratify=labels, test_size=test_prop) on the   *)
(* number of rows of each class (generate_datasets, lines 231-232).        *)
(* A class-count vector has one entry per class of the label file; a 0     *)
(* entry is a class with no row in the series being split.                 *)
(***************************************************************************)
\* test_prop values the model draws; each is a fraction <<num, den>> whose
\* product with a row count below 80 is computed exactly by a double
TestProps == { <<1, 5>>, <<1, 4>>, <<1, 2>> }

\* n_test = ceil(test_size * n_samples)
CeilMul(f, n) == (f[1] * n + f[2] - 1) \div f[2]

Present(counts) == {c \in 1..Len(counts) : counts[c] > 0}

RECURSIVE AddByRemainder(_, _, _, _)
\* the loop of _approximate_mode: going through the distinct remainders from
\* the largest down, add one draw to min(#classes with that remainder, draws
\* still needed) classes chosen at random among those with that remainder
AddByRemainder(floored, remainder, values, need) ==
    IF need = 0 \/ values = <<>> THEN {floored}
    ELSE LET inds == {c \in 1..Len(floored) : remainder[c] = Head(values)}
             add_now == Min(Cardinality(inds), need)
         IN  UNION { AddByRemainder([c \in 1..Len(floored) |->
                                        IF c \in chosen THEN floored[c] + 1 ELSE floored[c]],
                                    remainder, Tail(values), need - add_now)
                     : chosen \in {T \in SUBSET inds : Cardinality(T) = add_now} }

\* _approximate_mode(class_counts, n_draws, rng): the allocations it can
\* return.  continuous = class_counts / sum * n_draws; remainders are kept
\* as numerators over sum.
ApproximateModeFirst(counts, n_draws) ==
    LET total == SumSeq(counts)
        floored == [c \in 1..Len(counts) |-> (counts[c] * n_draws) \div total]
        need == n_draws - SumSeq(floored)
    IN  {[c \in 1..Len(counts) |-> IF c = 1 THEN floored[c] + need ELSE floored[c]]}
ApproximateMode(counts, n_draws) ==
    LET total == SumSeq(counts)
        floored == [c \in 1..Len(counts) |-> (counts[c] * n_draws) \div total]
        remainder == [c \in 1..Len(counts) |-> (counts[c] * n_draws) % total]
        need == n_draws - SumSeq(floored)
        desc == LET asc == SortedSeq(Range(remainder))
                IN  [k \in 1..Len(asc) |-> asc[Len(asc) + 1 - k]]
    IN  AddByRemainder(floored, remainder, desc, need)

\* the checks of train_test_split / StratifiedShuffleSplit that raise ValueError
SplitRaises(counts, f) ==
    LET n == SumSeq(counts)
        n_test == CeilMul(f, n)
        n_train == n - n_test
        n_classes == Cardinality(Present(counts))
    IN  \/ n = 0
        \/ n_train = 0
        \/ \E c \in Present(counts) : counts[c] < 2
        \/ n_train < n_classes
        \/ n_test < n_classes

\* the per-class sizes <<train, test>> a stratified split can return
SplitCounts(counts, f) ==
    LET n == SumSeq(counts)
        n_test == CeilMul(f, n)
        n_train == n - n_test
    IN  UNION { { <<n_i, t_i>> :
                    t_i \in ApproximateMode([c \in 1..Len(counts) |-> counts[c] - n_i[c]], n_test) }
                : n_i \in ApproximateMode(counts, n_train) }

RECURSIVE CountVectors(_, _)
\* class-count vectors of k classes, every class with at least one row, with
\* at most budget rows in all
CountVectors(k, budget) ==
    IF k = 0 THEN {<<>>}
    ELSE UNION { { <<first>> \o rest : rest \in CountVectors(k - 1, budget - first) }
                 : first \in 1..(budget - (k - 1)) }

StratInit ==
    \E k \in 1..MaxClasses, f \in TestProps :
        \E counts \in CountVectors(k, MaxStratRows) :
            /\ class_counts = counts
            /\ test_prop = f
            /\ strat = NoResult

\* lines 231-232 with both calls returning
StratSplit ==
    /\ strat = NoResult
    /\ ~SplitRaises(class_counts, test_prop)
    /\ \E first \in SplitCounts(class_counts, test_prop) :
          /\ ~SplitRaises(first[1], test_prop)
          /\ \E second \in SplitCounts(first[1], test_prop) :
                strat' = [status |-> "ok", train |-> second[1], val |-> first[2],
                          test |-> second[2]]
    /\ UNCHANGED <<class_counts, test_prop>>
    /\ UNCHANGED notStratVars

\* line 231 or line 232 raising ValueError
StratSplitRaises ==
    /\ strat = NoResult
    /\ \/ SplitRaises(class_counts, test_prop)
       \/ \E first \in SplitCounts(class_counts, test_prop) : SplitRaises(first[1], test_prop)
    /\ strat' = [status |-> "ValueError"]
    /\ UNCHANGED <<class_counts, test_prop>>
    /\ UNCHANGED notStratVars

InitStrat ==
    StratInit /\ LoaderIdle /\ AlignIdle /\ DataIdle /\ GenIdle /\ WeightIdle /\ CollocateIdle /\ CacheIdle /\ CallIdle
NextStrat == StratSplit \/ StratSplitRaises
SpecStrat == InitStrat /\ [][NextStrat]_vars

(***************************************************************************)
(* Claims about the two-stage split sizes (checked under SpecStrat)        *)
(***************************************************************************)
Abs(x) == IF x < 0 THEN -x ELSE x

StratRows == SumSeq(class_counts)

\* |size - share * rows| < 1 for a share num/den: size is share * rows
\* rounded down or up
RoundingOf(size, num, den, rows) == Abs(size * den - num * rows) < den

\* C5 (as claimed): val and test have the same size, each test_prop * N up
\* to rounding, and train has (1 - 2 * test_prop) * N up to rounding.
C5_ValTestSameSize ==
    (strat # NoResult /\ strat.status = "ok") =>
        /\ SumSeq(strat.val) = SumSeq(strat.test)
        /\ RoundingOf(SumSeq(strat.val), test_prop[1], test_prop[2], StratRows)
        /\ RoundingOf(SumSeq(strat.test), test_prop[1], test_prop[2], StratRows)
        /\ RoundingOf(SumSeq(strat.train), test_prop[2] - 2 * test_prop[1], test_prop[2],
                      StratRows)

\* |rows of class c in subset - size of subset * share of c in the label
\* file|, multiplied by the number of rows of the label file
ClassDeviation(subset, c) ==
    Abs(subset[c] * StratRows - SumSeq(subset) * class_counts[c])

\* C6 (as claimed): in each of train, val and test every class is within one
\* sample of (size of the subset) x (share of the class in the label file).
C6_WithinOneSample ==
    (strat # NoResult /\ strat.status = "ok") =>
        \A c \in 1..Len(class_counts) :
            /\ ClassDeviation(strat.train, c) <= StratRows
            /\ ClassDeviation(strat.val, c) <= StratRows
            /\ ClassDeviation(strat.test, c) <= StratRows

\* C6 (amended): val is within one sample of its stratified share for every
\* class; train and test, cut from the already reduced set, are within two
\* samples of it; the subsets partition every class; for four rows of each
\* of two classes and test_prop 0.25 all three subsets are exactly 50/50.
C6_WithinTwoSamples ==
    (strat # NoResult /\ strat.status = "ok") =>
        /\ \A c \in 1..Len(class_counts) :
              /\ ClassDeviation(strat.val, c) < StratRows
              /\ ClassDeviation(strat.train, c) < 2 * StratRows
              /\ ClassDeviation(strat.test, c) < 2 * StratRows
              /\ strat.train[c] + strat.val[c] + strat.test[c] = class_counts[c]
        /\ (class_counts = <<4, 4>> /\ test_prop = <<1, 4>>) =>
              /\ strat.train = <<2, 2>>
              /\ strat.val = <<1, 1>>
              /\ strat.test = <<1, 1>>

\* a split of classes of 9, 4, 4 and 3 rows with test_prop 0.2 in which the
\* 3-row class has 3 of the 12 train rows, 1.2 more than its share
C6_Witness ==
    /\ strat # NoResult
    /\ strat.status = "ok"
    /\ class_counts = <<9, 4, 4, 3>>
    /\ test_prop = <<1, 5>>
    /\ strat.train = <<5, 2, 2, 3>>

\* C16: the two-stage split raises whenever some class of the label file has
\* fewer than 3 rows, and a split that returns has every class of the label
\* file in train, in val and in test.
C16_FewRowsFailOrAllPresent ==
    strat # NoResult =>
        /\ (\E c \in 1..Len(class_counts) : class_counts[c] < 3) => strat.status = "ValueError"
        /\ strat.status = "ok" =>
              \A c \in 1..Len(class_counts) :
                  strat.train[c] > 0 /\ strat.val[c] > 0 /\ strat.test[c] > 0

-----------------------------------------------------------------------------
(***************************************************************************)
(* Files on disk and GeneExpressionData                                    *)
(*                                                                         *)
(* A label file is a sequence of rows [cell, label]; pandas gives row k    *)
(* (0-based) the index label k.  A data file is a sequence of lines, a     *)
(* line a sequence of comma-separated tokens.  A token is a number >= 0    *)
(* (a numeric string) or a negative number (a string float() rejects):     *)
(* EmptyString is '', -(c + 1) the name of column c.                       *)
(***************************************************************************)
Classes == {0, 1}
EmptyString == -1

HeaderLine == <<-2, -3>>
\* the sample line of row r (0-based)
SampleLine(r) == <<r, r + 1>>

\* a data file with nhead non-numeric leading lines and ndata sample lines
DataFile(nhead, ndata) ==
    [k \in 1..(nhead + ndata) |-> IF k <= nhead THEN HeaderLine ELSE SampleLine(k - nhead - 1)]

\* linecache.getline(filename, lineno): lines are numbered from 1; '' when
\* lineno is outside the file
GetLine(lines, lineno) ==
    IF lineno >= 1 /\ lineno <= Len(lines) THEN lines[lineno] ELSE <<>>

\* line.split(','): ''.split(',') is ['']
SplitLine(line) == IF line = <<>> THEN <<EmptyString>> ELSE line

\* indices=None
NoIndices == [given |-> FALSE]
Indices(idx) == [given |-> TRUE, idx |-> idx]

\* pd.read_csv(labelname).loc[indices, :] raises KeyError for a missing label
InitRaises(labels, indices) ==
    indices.given /\ \E k \in 1..Len(indices.idx) : indices.idx[k] \notin 0..(Len(labels) - 1)

\* .loc[indices, :].reset_index(drop=True): the label rows named by indices,
\* in the order of indices, at positions 0..len-1, their columns untouched
LocRowsHead(labels, idx) == SubSeq(labels, 1, Len(idx))
LocRows(labels, idx) == [k \in 1..Len(idx) |-> labels[idx[k] + 1]]

\* GeneExpressionData.__init__: the retained label rows, renumbered 0..len-1
\* by reset_index(drop=True), keep their cell values
GeneExpressionDataInit(srcs, s, indices, skip, cast, normalize) ==
    [filename |-> s, skip |-> skip, cast |-> cast, normalize |-> normalize,
     indices |-> indices,
     labeldf |-> IF indices.given
                 THEN LocRows(srcs[s].labels, indices.idx)
                 ELSE srcs[s].labels]

\* __len__
DatasetLen(d) == Len(d.labeldf)

\* the line features parses: self.skip - 1
HeaderLineNo(d) == d.skip - 1

\* data_index = self._labeldf.loc[idx, self._index_col]
DataIndexPosition(d, idx) == idx
DataIndex(d, idx) == d.labeldf[idx + 1].cell

\* the lineno given to linecache.getline: data_index + self.skip
LineNumberBefore(d, data_index) == data_index + d.skip - 1
LineNumber(d, data_index) == data_index + d.skip

SeqMax(row) == CHOOSE m \in Range(row) : \A v \in Range(row) : v <= m

\* the row position .loc[idx, column] resolves the index label idx to: the
\* table is indexed 0..len-1 after reset_index, any other label is missing
NotFound == -1
LocPositionWrap(d, idx) == IF DatasetLen(d) = 0 THEN NotFound ELSE idx % DatasetLen(d)
LocPosition(d, idx) == IF idx \in 0..(DatasetLen(d) - 1) THEN idx ELSE NotFound

\* __getitem__(idx) for an integer idx; a quotient a / b is kept as <<a, b>>
GetItemInt(srcs, d, idx) ==
    IF LocPosition(d, idx) = NotFound
    THEN [status |-> "KeyError", idx |-> idx, read |-> FALSE]
    ELSE LET data_index == DataIndex(d, LocPosition(d, idx))
             lineno == LineNumber(d, data_index)
             line == GetLine(srcs[d.filename].lines, lineno)
             tokens == SplitLine(line)
             label == d.labeldf[LocPosition(d, idx) + 1].label
             base == [idx |-> idx, read |-> TRUE, data_index |-> data_index,
                      lineno |-> lineno, line |-> line]
         IN  IF d.cast /\ \E k \in 1..Len(tokens) : tokens[k] < 0
             THEN [status |-> "ValueError"] @@ base
             ELSE IF d.normalize /\ ~d.cast
             THEN [status |-> "TypeError"] @@ base
             ELSE [status |-> "ok", label |-> label,
                   data |-> IF d.normalize
                            THEN [k \in 1..Len(tokens) |-> <<tokens[k], SeqMax(tokens)>>]
                            ELSE tokens] @@ base

\* the class_label column of the retained label rows
LabelColumn(d) == [k \in 1..Len(d.labeldf) |-> d.labeldf[k].label]

\* Series.unique(): the distinct values in order of first appearance
SeriesUnique(col) ==
    LET F[k \in 0..Len(col)] ==
            IF k = 0 THEN <<>>
            ELSE IF col[k] \in Range(F[k - 1]) THEN F[k - 1] ELSE Append(F[k - 1], col[k])
    IN  F[Len(col)]

\* labels: self._labeldf.loc[:, self._class_label].unique()
UniqueLabels(d) == SeriesUnique(LabelColumn(d))

\* range(start, stop, step) for step > 0
PyRange(start, stop, step) ==
    LET n == IF stop > start THEN (stop - start + step - 1) \div step ELSE 0
    IN  [k \in 1..n |-> start + (k - 1) * step]

NoneArg == [none |-> TRUE]
IntArg(n) == [none |-> FALSE, n |-> n]

\* __getitem__(slice(start, stop, step)): the list of self[i], or the first exception
GetItemSlice(srcs, d, start, stop, step) ==
    IF start.none \/ stop.none
    THEN [status |-> "ValueError", slice |-> TRUE, read |-> FALSE]
    ELSE LET idxs == PyRange(start.n, stop.n, IF step.none THEN 1 ELSE step.n)
             items == [k \in 1..Len(idxs) |-> GetItemInt(srcs, d, idxs[k])]
             bad == {k \in 1..Len(idxs) : items[k].status # "ok"}
         IN  IF bad = {}
             THEN [status |-> "ok", slice |-> TRUE, read |-> Len(idxs) > 0, items |-> items]
             ELSE LET first == CHOOSE k \in bad : \A h \in bad : k <= h
                  IN  [status |-> items[first].status, slice |-> TRUE,
                       read |-> \E k \in 1..first : items[k].read,
                       items |-> SubSeq(items, 1, first)]

\* strictly increasing sequences of n row numbers in 0..MaxCell
CellColumns(n) ==
    {SortedSeq(T) : T \in {U \in SUBSET (0..MaxCell) : Cardinality(U) = n}}

LabelFiles ==
    UNION { { [k \in 1..n |-> [cell |-> cells[k], label |-> labs[k]]] :
                cells \in CellColumns(n), labs \in [1..n -> Classes] }
            : n \in 1..MaxLabelRows }

\* a GeneExpressionData built directly on one (label file, data file) pair
DataInit ==
    \E labels \in LabelFiles, skip \in 2..MaxSkip, ndata \in 0..MaxDataLines,
       cast \in BOOLEAN, normalize \in BOOLEAN :
        \E nhead \in {skip - 1, skip},
           indices \in {NoIndices} \cup
                       {Indices(ix) : ix \in DistinctSeqs(0..(Len(labels) - 1), 0, Len(labels))} :
            /\ sources = << [labels |-> labels, lines |-> DataFile(nhead, ndata)] >>
            /\ dataset = GeneExpressionDataInit(sources, 1, indices, skip, cast, normalize)
            /\ last = NoResult

\* dataset[idx]
GetItem ==
    /\ \E idx \in (-1)..DatasetLen(dataset) :
          last' = GetItemInt(sources, dataset, idx) @@ [slice |-> FALSE]
    /\ UNCHANGED <<sources, dataset>>
    /\ UNCHANGED <<loaderVars, alignVars, stratVars, genVars, weightVars, collocateVars, cacheVars, callVars>>

\* dataset[start:stop:step]
GetSlice ==
    /\ \E start \in {NoneArg, IntArg(0)}, stop \in {NoneArg, IntArg(DatasetLen(dataset))},
          step \in {NoneArg, IntArg(2)} :
          last' = GetItemSlice(sources, dataset, start, stop, step)
    /\ UNCHANGED <<sources, dataset>>
    /\ UNCHANGED <<loaderVars, alignVars, stratVars, genVars, weightVars, collocateVars, cacheVars, callVars>>

InitData ==
    DataInit /\ LoaderIdle /\ AlignIdle /\ StratIdle /\ GenIdle /\ WeightIdle /\ CollocateIdle /\ CacheIdle /\ CallIdle
NextData == GetItem \/ GetSlice
SpecData == InitData /\ [][NextData]_vars

(***************************************************************************)
(* Claims about GeneExpressionData.__getitem__ (checked under SpecData)    *)
(***************************************************************************)
\* the label-file row retained at position p, from the constructor's arguments
RetainedRow(p) ==
    IF dataset.indices.given
    THEN sources[1].labels[dataset.indices.idx[p + 1] + 1]
    ELSE sources[1].labels[p + 1]

\* last is the outcome of dataset[p] for an integer p that read a data line
IntRead == last # NoResult /\ ~last.slice /\ last.read

\* C9: dataset[p] reads the data-file line numbered (row-number column of the
\* p-th retained label row) + skip, whatever p is, and a returned sample
\* carries the label of that same retained row and the tokens of that line.
C9_ReadsStoredRowNumber ==
    IntRead =>
        /\ last.idx \in 0..(DatasetLen(dataset) - 1)
        /\ last.data_index = RetainedRow(last.idx).cell
        /\ last.lineno = RetainedRow(last.idx).cell + dataset.skip
        /\ last.line = GetLine(sources[1].lines, RetainedRow(last.idx).cell + dataset.skip)
        /\ last.status = "ok" =>
              /\ last.label = RetainedRow(last.idx).label
              /\ Len(last.data) = Len(SplitLine(last.line))

\* position 0 holds row number 2: line 2 + skip is read, not line 0 + skip
C9_Witness ==
    /\ IntRead
    /\ last.status = "ok"
    /\ last.idx = 0
    /\ last.data_index = 2
    /\ last.lineno = 2 + dataset.skip
    /\ last.label = 1

C13_PastEndRaises ==
    (last # NoResult /\ ~last.slice /\ last.idx >= DatasetLen(dataset)) =>
        /\ last.status = "KeyError"
        /\ ~last.read
        /\ DOMAIN last = {"status", "idx", "read", "slice"}

\* dataset[len(dataset)] has been evaluated on a dataset with two rows
C13_Witness ==
    /\ last # NoResult
    /\ ~last.slice
    /\ DatasetLen(dataset) = 2
    /\ last.idx = 2
    /\ last.status = "KeyError"

\* C14: a read whose line number (row number + skip) is past the end of the
\* data file fails, whatever cast and normalize are: no sample is returned.
C14_PastEndOfFileFails ==
    (IntRead /\ last.lineno > Len(sources[1].lines)) => last.status # "ok"

\* the number of columns of the data file: the tokens of its header line
NativeColumnCount == Len(SplitLine(GetLine(sources[1].lines, HeaderLineNo(dataset))))

\* C12 (no alignment applied): dataset[p] for a valid position p returns a
\* sample whose feature vector has as many entries as the data file has
\* columns and whose label is one of the dataset's unique labels.
C12_ValidPositionYieldsFullSample ==
    (last # NoResult /\ ~last.slice /\ last.idx \in 0..(DatasetLen(dataset) - 1)) =>
        /\ last.status = "ok"
        /\ Len(last.data) = NativeColumnCount
        /\ last.label \in Range(UniqueLabels(dataset))

\* C11: a dataset constructed with a row subset indices has one position per
\* entry of indices (positions 0..len-1), position p holds the label-file row
\* named by indices[p] with its columns unchanged, and the row number that
\* addresses the data file at position p is that row's original row number,
\* not p; a read at p uses that original row number.
C11_SubsetKeepsRowNumbers ==
    dataset.indices.given =>
        /\ DatasetLen(dataset) = Len(dataset.indices.idx)
        /\ \A p \in 0..(DatasetLen(dataset) - 1) :
              /\ dataset.labeldf[p + 1] = sources[1].labels[dataset.indices.idx[p + 1] + 1]
              /\ DataIndex(dataset, p) = sources[1].labels[dataset.indices.idx[p + 1] + 1].cell
        /\ IntRead =>
              last.data_index = sources[1].labels[dataset.indices.idx[last.idx + 1] + 1].cell

\* indices = [1] on a two-row label file whose second row has row number 2:
\* the dataset has length 1 and its position 0 has read row number 2
C11_Witness ==
    /\ dataset.indices.given
    /\ dataset.indices.idx = <<1>>
    /\ Len(sources[1].labels) = 2
    /\ DatasetLen(dataset) = 1
    /\ IntRead
    /\ last.idx = 0
    /\ last.data_index = 2

-----------------------------------------------------------------------------
(***************************************************************************)
(* generate_datasets: the two-stage split on the rows of each label file,  *)
(* one GeneExpressionData per source and split, ConcatDataset              *)
(***************************************************************************)
DefaultSkip == 3

\* pd.read_csv(labelfile).loc[:, class_label]: a Series, row k has index k
LabelSeries(labels) ==
    [k \in 1..Len(labels) |-> [index |-> k - 1, value |-> labels[k].label]]

\* series.index
IndexOf(series) == [k \in 1..Len(series) |-> series[k].index]

\* np.unique(y) and np.bincount of the stratify series
ClassesOf(series) == SortedSeq({series[k].value : k \in 1..Len(series)})
ClassCounts(series) ==
    LET classes == ClassesOf(series)
    IN  [c \in 1..Len(classes) |->
            Cardinality({k \in 1..Len(series) : series[k].value = classes[c]})]

\* the rows of a set of series rows that belong to each class, n[c] of class c
PicksOf(rows, classes, n) ==
    {T \in SUBSET rows :
        \A c \in 1..Len(classes) :
            Cardinality({r \in T : r.value = classes[c]}) = n[c]}

\* train_test_split(series, stratify=series, test_size=f): every <<train,
\* test>> it can return; each side is a random permutation of the rows drawn
\* for it, class by class, with the sizes of SplitCounts
TrainTestSplit(series, f) ==
    LET classes == ClassesOf(series)
        rows == Range(series)
    IN  UNION { UNION { UNION { { <<tr, te>> : tr \in Perms(T), te \in Perms(S) }
                                : S \in PicksOf(rows \ T, classes, nt[2]) }
                        : T \in PicksOf(rows, classes, nt[1]) }
                : nt \in SplitCounts(ClassCounts(series), f) }

TrainTestRaises(series, f) == SplitRaises(ClassCounts(series), f)

\* the series line 232 splits: the train part of line 231
SecondSplitWhole(current_labels, trainsplit) == current_labels
SecondSplitInput(current_labels, trainsplit) == trainsplit

\* lines 231-232: every (trainsplit, valsplit, testsplit) they can produce
TwoStageSplits(current_labels, f) ==
    IF TrainTestRaises(current_labels, f) THEN {}
    ELSE UNION { IF TrainTestRaises(SecondSplitInput(current_labels, first[1]), f) THEN {}
                 ELSE { [train |-> second[1], val |-> first[2], test |-> second[2]] :
                          second \in TrainTestSplit(SecondSplitInput(current_labels, first[1]), f) }
                 : first \in TrainTestSplit(current_labels, f) }

\* line 231 raises, or line 232 raises after some outcome of line 231
TwoStageRaises(current_labels, f) ==
    \/ TrainTestRaises(current_labels, f)
    \/ \E first \in TrainTestSplit(current_labels, f) :
          TrainTestRaises(SecondSplitInput(current_labels, first[1]), f)

RECURSIVE AllSplits(_, _, _)
\* the splits of sources 1..n, one per source
AllSplits(srcs, n, f) ==
    IF n = 0 THEN {<<>>}
    ELSE { Append(rest, one) : rest \in AllSplits(srcs, n - 1, f),
                               one \in TwoStageSplits(LabelSeries(srcs[n].labels), f) }

\* ConcatDataset.cumsum: r[k] = len(datasets[1]) + ... + len(datasets[k])
CumsumFlat(datasets) == [k \in 1..Len(datasets) |-> DatasetLen(datasets[k])]
Cumsum(datasets) ==
    [k \in 1..Len(datasets) |-> SumSeq([j \in 1..k |-> DatasetLen(datasets[j])])]

\* ConcatDataset(datasets)
ConcatDataset(datasets) ==
    [concat |-> TRUE, datasets |-> datasets, cumulative_sizes |-> Cumsum(datasets)]

\* lines 250-257: ConcatDataset for more than one data file, else the
\* single GeneExpressionData itself
Combined(ndatafiles, datasets) ==
    IF ndatafiles > 1 THEN ConcatDataset(datasets)
    ELSE [concat |-> FALSE, datasets |-> <<datasets[1]>>]

\* len(combined)
CombinedLen(c) ==
    IF c.concat THEN c.cumulative_sizes[Len(c.cumulative_sizes)]
    ELSE DatasetLen(c.datasets[1])

\* bisect.bisect_right(a, x): the number of entries of a that are <= x
BisectLeft(a, x) == Cardinality({k \in 1..Len(a) : a[k] < x})
BisectRight(a, x) == Cardinality({k \in 1..Len(a) : a[k] <= x})

\* combined[idx] for idx >= 0: ConcatDataset.__getitem__ or the dataset's own
CombinedGetItem(srcs, c, idx) ==
    IF ~c.concat
    THEN GetItemInt(srcs, c.datasets[1], idx) @@ [source |-> 0, local |-> idx]
    ELSE LET dataset_idx == BisectRight(c.cumulative_sizes, idx)
             sample_idx == IF dataset_idx = 0 THEN idx
                           ELSE idx - c.cumulative_sizes[dataset_idx]
         IN  IF dataset_idx >= Len(c.datasets)
             THEN [status |-> "IndexError", idx |-> idx, read |-> FALSE,
                   source |-> dataset_idx, local |-> sample_idx]
             ELSE GetItemInt(srcs, c.datasets[dataset_idx + 1], sample_idx)
                     @@ [source |-> dataset_idx, local |-> sample_idx]

\* test_prop values given to generate_datasets: the default and a half
GenTestProps == { <<1, 5>>, <<1, 2>> }

RECURSIVE SourceLists(_, _)
\* lists of n label files (rows [cell, label], cell = row number) of at most
\* MaxSourceRows rows, with at most budget rows in all, each with its data file
SourceLists(n, budget) ==
    IF n = 0 THEN {<<>>}
    ELSE UNION { { <<[labels |-> [k \in 1..rows |-> [cell |-> k - 1, label |-> labs[k]]],
                      lines |-> DataFile(DefaultSkip - 1, rows)]>> \o rest :
                     labs \in [1..rows -> Classes], rest \in SourceLists(n - 1, budget - rows) }
                 : rows \in 1..Min(MaxSourceRows, budget - (n - 1)) }

GenInit ==
    \E n \in 1..MaxSources, f \in GenTestProps :
        \E srcs \in SourceLists(n, MaxTotalRows) :
            /\ sources = srcs
            /\ gen_test_prop = f
            /\ dataset = NoResult
            /\ last = NoResult
            /\ train_datasets = <<>>
            /\ val_datasets = <<>>
            /\ test_datasets = <<>>
            /\ returned = NoResult

\* the GeneExpressionData of source s for one split (lines 235-246)
SplitDataset(srcs, s, series) ==
    GeneExpressionDataInit(srcs, s, Indices(IndexOf(series)), DefaultSkip, TRUE, FALSE)

\* generate_datasets(datafiles, labelfiles, class_label, test_prop=f) returning
GenerateDatasets ==
    /\ returned = NoResult
    /\ \E splits \in AllSplits(sources, Len(sources), gen_test_prop) :
          LET tr == [s \in 1..Len(sources) |-> SplitDataset(sources, s, splits[s].train)]
              va == [s \in 1..Len(sources) |-> SplitDataset(sources, s, splits[s].val)]
              te == [s \in 1..Len(sources) |-> SplitDataset(sources, s, splits[s].test)]
          IN  /\ train_datasets' = tr
              /\ val_datasets' = va
              /\ test_datasets' = te
              /\ returned' = [status |-> "ok",
                              train |-> Combined(Len(sources), tr),
                              val |-> Combined(Len(sources), va),
                              test |-> Combined(Len(sources), te)]
    /\ UNCHANGED <<sources, dataset, last, gen_test_prop>>
    /\ UNCHANGED <<loaderVars, alignVars, stratVars, weightVars, collocateVars, cacheVars, callVars>>

\* generate_datasets raising the ValueError of train_test_split at some
\* source, the sources before it having been split
GenerateRaises ==
    /\ returned = NoResult
    /\ \E s \in 1..Len(sources) :
          /\ AllSplits(sources, s - 1, gen_test_prop) # {}
          /\ TwoStageRaises(LabelSeries(sources[s].labels), gen_test_prop)
    /\ returned' = [status |-> "ValueError"]
    /\ UNCHANGED <<sources, dataset, last, gen_test_prop>>
    /\ UNCHANGED <<train_datasets, val_datasets, test_datasets>>
    /\ UNCHANGED <<loaderVars, alignVars, stratVars, weightVars, collocateVars, cacheVars, callVars>>

\* train[g], val[g] or test[g] on the returned datasets
GetCombined ==
    /\ returned # NoResult
    /\ returned.status = "ok"
    /\ \E kind \in {"train", "val", "test"} :
          \E g \in 0..CombinedLen(returned[kind]) :
              last' = CombinedGetItem(sources, returned[kind], g)
                         @@ [kind |-> kind, g |-> g, slice |-> FALSE]
    /\ UNCHANGED <<sources, dataset, gen_test_prop>>
    /\ UNCHANGED <<train_datasets, val_datasets, test_datasets, returned>>
    /\ UNCHANGED <<loaderVars, alignVars, stratVars, weightVars, collocateVars, cacheVars, callVars>>

Init == GenInit /\ LoaderIdle /\ AlignIdle /\ StratIdle /\ WeightIdle /\ CollocateIdle /\ CacheIdle /\ CallIdle
Next == GenerateDatasets \/ GenerateRaises \/ GetCombined
Spec == Init /\ [][Next]_vars

(***************************************************************************)
(* Claims about generate_datasets (checked under Spec)                     *)
(***************************************************************************)
Generated == returned # NoResult /\ returned.status = "ok"

\* the label-file rows given to the instance as indices
IndexSet(d) == Range(d.indices.idx)

\* C4: for every source the train, val and test index sets of the two-stage
\* split are pairwise disjoint, hold no row twice, and together are exactly
\* the rows of the source's label file.
C4_SplitsPartitionRows ==
    Generated =>
        \A s \in 1..Len(sources) :
            LET tr == train_datasets[s]
                va == val_datasets[s]
                te == test_datasets[s]
            IN  /\ IndexSet(tr) \cap IndexSet(va) = {}
                /\ IndexSet(tr) \cap IndexSet(te) = {}
                /\ IndexSet(va) \cap IndexSet(te) = {}
                /\ IndexSet(tr) \cup IndexSet(va) \cup IndexSet(te)
                      = 0..(Len(sources[s].labels) - 1)
                /\ Cardinality(IndexSet(tr)) = Len(tr.indices.idx)
                /\ Cardinality(IndexSet(va)) = Len(va.indices.idx)
                /\ Cardinality(IndexSet(te)) = Len(te.indices.idx)

\* two sources of 4 and 3 rows have been split
C4_Witness ==
    /\ Generated
    /\ Len(sources) = 2
    /\ Len(sources[1].labels) = 4
    /\ Len(sources[2].labels) = 3
    /\ IndexSet(val_datasets[1]) # {}
    /\ IndexSet(test_datasets[1]) # {}

\* the per-source instances of a split kind, in construction order
ListOf(kind) ==
    IF kind = "train" THEN train_datasets
    ELSE IF kind = "val" THEN val_datasets ELSE test_datasets

\* l_1 + ... + l_(s-1) for the component lengths of a list of datasets
PrefixLen(list, s) == SumSeq([j \in 1..(s - 1) |-> DatasetLen(list[j])])

\* last is the outcome of combined[g] on a returned dataset
CombinedRead == last # NoResult /\ Generated

\* C7: combined[g] for 0 <= g < sum of the component lengths delegates to
\* the one source s (0-based, construction order) with
\* l_0+..+l_(s-1) <= g < l_0+..+l_s, at local position g - (l_0+..+l_(s-1)),
\* and returns what that source's dataset returns for that position.
C7_GlobalIndexResolves ==
    (CombinedRead /\ last.g < SumSeq([j \in 1..Len(sources) |-> DatasetLen(ListOf(last.kind)[j])])) =>
        LET list == ListOf(last.kind)
        IN  \E s \in 1..Len(list) :
                /\ PrefixLen(list, s) <= last.g
                /\ last.g < PrefixLen(list, s) + DatasetLen(list[s])
                /\ \A t \in 1..Len(list) :
                      (PrefixLen(list, t) <= last.g /\ last.g < PrefixLen(list, t + 1)) => t = s
                /\ last.source = s - 1
                /\ last.local = last.g - PrefixLen(list, s)
                /\ last.status = "ok"
                /\ last.data_index = list[s].labeldf[last.local + 1].cell
                /\ last.line = GetLine(sources[s].lines, last.lineno)

\* train lengths [2, 1]: train[2] resolves to source 1, local position 0
C7_Witness ==
    /\ CombinedRead
    /\ last.kind = "train"
    /\ Len(sources) = 2
    /\ DatasetLen(train_datasets[1]) = 2
    /\ DatasetLen(train_datasets[2]) = 1
    /\ last.g = 2
    /\ last.source = 1
    /\ last.local = 0

\* C8: the length of each returned dataset is the sum of the lengths of the
\* per-source instances of its kind, each as long as the split subset it was
\* built from, for one source (no concatenation) and for several.
C8_CombinedLength ==
    Generated =>
        \A kind \in {"train", "val", "test"} :
            /\ CombinedLen(returned[kind])
                  = SumSeq([s \in 1..Len(sources) |-> DatasetLen(ListOf(kind)[s])])
            /\ \A s \in 1..Len(sources) :
                  DatasetLen(ListOf(kind)[s]) = Len(ListOf(kind)[s].indices.idx)
            /\ returned[kind].concat = (Len(sources) > 1)

\* two sources: the train dataset is a ConcatDataset of length 2 + 1
C8_Witness ==
    /\ Generated
    /\ Len(sources) = 2
    /\ returned.train.concat
    /\ DatasetLen(train_datasets[1]) = 2
    /\ DatasetLen(train_datasets[2]) = 1
    /\ CombinedLen(returned.train) = 3

-----------------------------------------------------------------------------
(***************************************************************************)
(* generate_loaders(collocate=True): generate_datasets with the default    *)
(* test_prop, then three torch DataLoaders (lines 356-371).  A DataLoader  *)
(* keeps the object it is given as its dataset; a batch is fetched as      *)
(* [dataset[k] for k in indices], the first batch with indices             *)
(* 0..min(batch_size, len(dataset)) - 1.                                   *)
(***************************************************************************)
DefaultBatchSize == 4
DefaultTestProp == <<1, 5>>

\* DataLoader(dataset, batch_size=batch_size, num_workers=num_workers)
DataLoader(ds, bs) == [loader |-> TRUE, dataset |-> ds, batch_size |-> bs]
IsDataLoader(x) == "loader" \in DOMAIN x

\* lines 367-369: train is rebound to its loader before val and test are built
CollocateLoaders(ret, bs) ==
    LET train == DataLoader(ret.train, bs)
        val == DataLoader(train, bs)
        test == DataLoader(train, bs)
    IN  [status |-> "ok", train |-> train, val |-> val, test |-> test]

\* next(iter(loader)): the samples of the first batch, or the first exception;
\* a DataLoader has __len__ and __iter__ but no __getitem__
FirstBatch(srcs, ld) ==
    IF IsDataLoader(ld.dataset)
    THEN [status |-> "TypeError", read |-> FALSE, items |-> <<>>]
    ELSE LET n == Min(ld.batch_size, CombinedLen(ld.dataset))
             items == [k \in 1..n |-> CombinedGetItem(srcs, ld.dataset, k - 1)]
             bad == {k \in 1..n : items[k].status # "ok"}
         IN  IF n = 0 THEN [status |-> "StopIteration", read |-> FALSE, items |-> <<>>]
             ELSE IF bad = {} THEN [status |-> "ok", read |-> TRUE, items |-> items]
             ELSE LET first == CHOOSE k \in bad : \A h \in bad : k <= h
                  IN  [status |-> items[first].status, read |-> TRUE,
                       items |-> SubSeq(items, 1, first)]

CollocateInit == GenInit /\ gen_test_prop = DefaultTestProp /\ loaders = NoResult

\* generate_loaders(datafiles, labelfiles, class_label, collocate=True) returning
GenerateLoaders ==
    /\ returned = NoResult
    /\ loaders = NoResult
    /\ \E splits \in AllSplits(sources, Len(sources), gen_test_prop) :
          LET tr == [s \in 1..Len(sources) |-> SplitDataset(sources, s, splits[s].train)]
              va == [s \in 1..Len(sources) |-> SplitDataset(sources, s, splits[s].val)]
              te == [s \in 1..Len(sources) |-> SplitDataset(sources, s, splits[s].test)]
              ret == [status |-> "ok",
                      train |-> Combined(Len(sources), tr),
                      val |-> Combined(Len(sources), va),
                      test |-> Combined(Len(sources), te)]
          IN  /\ train_datasets' = tr
              /\ val_datasets' = va
              /\ test_datasets' = te
              /\ returned' = ret
              /\ loaders' = CollocateLoaders(ret, DefaultBatchSize)
    /\ UNCHANGED <<sources, dataset, last, gen_test_prop>>
    /\ UNCHANGED <<loaderVars, alignVars, stratVars, weightVars, cacheVars, callVars>>

\* generate_loaders raising the ValueError of its generate_datasets call
GenerateLoadersRaises ==
    /\ returned = NoResult
    /\ loaders = NoResult
    /\ \E s \in 1..Len(sources) :
          /\ AllSplits(sources, s - 1, gen_test_prop) # {}
          /\ TwoStageRaises(LabelSeries(sources[s].labels), gen_test_prop)
    /\ returned' = [status |-> "ValueError"]
    /\ loaders' = [status |-> "ValueError"]
    /\ UNCHANGED <<sources, dataset, last, gen_test_prop>>
    /\ UNCHANGED <<train_datasets, val_datasets, test_datasets>>
    /\ UNCHANGED <<loaderVars, alignVars, stratVars, weightVars, cacheVars, callVars>>

\* next(iter(train)), next(iter(val)) or next(iter(test)) on the returned loaders
LoaderFirstBatch ==
    /\ loaders # NoResult
    /\ loaders.status = "ok"
    /\ \E kind \in {"train", "val", "test"} :
          last' = FirstBatch(sources, loaders[kind]) @@ [kind |-> kind, slice |-> FALSE]
    /\ UNCHANGED <<sources, dataset, gen_test_prop, loaders>>
    /\ UNCHANGED <<train_datasets, val_datasets, test_datasets, returned>>
    /\ UNCHANGED <<loaderVars, alignVars, stratVars, weightVars, cacheVars, callVars>>

InitCollocate == CollocateInit /\ LoaderIdle /\ AlignIdle /\ StratIdle /\ WeightIdle /\ CacheIdle /\ CallIdle
NextCollocate == GenerateLoaders \/ GenerateLoadersRaises \/ LoaderFirstBatch
SpecCollocate == InitCollocate /\ [][NextCollocate]_vars

\* C19: the three loaders returned in collocate mode wrap the combined train,
\* val and test datasets of generate_datasets, in that order, and the first
\* batch of each is made of samples of the per-source datasets of its kind.
C19_LoadersWrapTheirSplit ==
    (loaders # NoResult /\ loaders.status = "ok") =>
        /\ \A kind \in {"train", "val", "test"} : loaders[kind].dataset = returned[kind]
        /\ last # NoResult =>
              /\ last.status = "ok"
              /\ \A k \in 1..Len(last.items) :
                    last.items[k].data_index \in IndexSet(ListOf(last.kind)[last.items[k].source + 1])

-----------------------------------------------------------------------------
(***************************************************************************)
(* GeneExpressionData.class_weights: compute_class_weight('balanced',      *)
(* classes=np.unique(labels), y=labels) on the class_label column of the   *)
(* retained rows.  A weight n / m is kept as the pair <<n, m>>; the float  *)
(* returned is that quotient, correctly rounded.                           *)
(***************************************************************************)
MaxWeightRows == 3      \* most rows of a label file whose weights are computed
WeightClasses == {0, 1, 2}

\* np.bincount(y_ind): the number of entries of y equal to each class
BincountOnes(classes, y) == [k \in 1..Len(classes) |-> 1]
Bincount(classes, y) ==
    [k \in 1..Len(classes) |-> Cardinality({j \in 1..Len(y) : y[j] = classes[k]})]

\* recip_freq = len(y) / (len(le.classes_) * np.bincount(y_ind)), one weight
\* per entry of classes
ComputeClassWeight(classes, y) ==
    LET counts == Bincount(classes, y)
    IN  [k \in 1..Len(classes) |-> <<Len(y), Len(classes) * counts[k]>>]

\* class_weights: classes are np.unique(labels), the sorted distinct labels
ClassWeights(d) ==
    LET y == LabelColumn(d)
        classes == SortedSeq(Range(y))
    IN  [status |-> "ok", classes |-> classes, weights |-> ComputeClassWeight(classes, y)]

\* a GeneExpressionData on a label file of 1..MaxWeightRows rows, on all rows
\* or on a non-empty subset of them
WeightInit ==
    \E n \in 1..MaxWeightRows :
        \E labs \in [1..n -> WeightClasses],
           rows \in {NoIndices} \cup {Indices(SortedSeq(T)) : T \in (SUBSET (0..(n - 1))) \ {{}}} :
            /\ sources = << [labels |-> [k \in 1..n |-> [cell |-> k - 1, label |-> labs[k]]],
                             lines |-> DataFile(DefaultSkip - 1, n)] >>
            /\ dataset = GeneExpressionDataInit(sources, 1, rows, DefaultSkip, TRUE, FALSE)
            /\ last = NoResult
            /\ class_weights = NoResult

\* the first access of dataset.class_weights (cached afterwards)
GetClassWeights ==
    /\ class_weights = NoResult
    /\ class_weights' = ClassWeights(dataset)
    /\ UNCHANGED dataVars
    /\ UNCHANGED <<loaderVars, alignVars, stratVars, genVars, collocateVars, cacheVars, callVars>>

InitWeights ==
    WeightInit /\ LoaderIdle /\ AlignIdle /\ StratIdle /\ GenIdle /\ CollocateIdle /\ CacheIdle /\ CallIdle
NextWeights == GetClassWeights
SpecWeights == InitWeights /\ [][NextWeights]_vars

\* rows of the dataset whose label is c
CountOf(c) == Cardinality({k \in 1..DatasetLen(dataset) : dataset.labeldf[k].label = c})
\* the classes of the label file the dataset was built on
FileClasses == {sources[1].labels[k].label : k \in 1..Len(sources[1].labels)}
\* the weight returned for class c, as <<numerator, denominator>>
WeightOf(c) ==
    class_weights.weights[CHOOSE k \in 1..Len(class_weights.classes) : class_weights.classes[k] = c]

-----------------------------------------------------------------------------
(***************************************************************************)
(* Calls made one after another on one GeneExpressionData.  The methods    *)
(* of lines 56-120 assign no attribute of self; functools.cached_property  *)
(* stores the value a property computes in the instance (memo) and         *)
(* returns the stored value on every later access; a property that raises  *)
(* stores nothing.                                                         *)
(***************************************************************************)
MaxFrozenRows == 2      \* most rows of the label file of the instance

\* cached_property.__get__: the stored value if there is one, else the value computed now
CachedValue(m, name, computed) == IF name \in DOMAIN m THEN m[name] ELSE computed
\* the instance's stored values after the access
CachedStoreNothing(m, name, computed) == m
CachedStore(m, name, computed) ==
    IF name \in DOMAIN m THEN m
    ELSE [a \in DOMAIN m \cup {name} |-> IF a = name THEN computed ELSE m[a]]

\* features: self.getline is not an attribute of the class
Features(d) == [status |-> "AttributeError"]

\* a history: what the first evaluation of each call gave
Remember(h, call, result) ==
    IF call \in DOMAIN h THEN h
    ELSE [c \in DOMAIN h \cup {call} |-> IF c = call THEN result ELSE h[c]]

FrozenInit ==
    \E n \in 1..MaxFrozenRows :
        \E labs \in [1..n -> Classes], cast \in BOOLEAN,
           rows \in {NoIndices, Indices(<<n - 1>>)} :
            /\ sources = << [labels |-> [k \in 1..n |-> [cell |-> k - 1, label |-> labs[k]]],
                             lines |-> DataFile(DefaultSkip - 1, n)] >>
            /\ dataset = GeneExpressionDataInit(sources, 1, rows, DefaultSkip, cast, FALSE)
            /\ built = dataset
            /\ memo = <<>>
            /\ answers = <<>>
            /\ last = NoResult

\* a method or plain property that stores nothing: the call and what it returns
Returned(call, result) ==
    /\ last' = [call |-> call, result |-> result]
    /\ answers' = Remember(answers, call, result)
    /\ UNCHANGED <<sources, dataset, built>>
    /\ UNCHANGED <<loaderVars, alignVars, stratVars, genVars, weightVars, collocateVars, cacheVars>>
    /\ UNCHANGED <<repeatVars, sharedVars>>

\* dataset[idx]
FrozenGetItem ==
    /\ \E idx \in 0..DatasetLen(dataset) :
          Returned(<<"getitem", idx>>, GetItemInt(sources, dataset, idx))
    /\ UNCHANGED memo

\* dataset[start:stop]
FrozenGetSlice ==
    /\ \E start \in {NoneArg, IntArg(0)} :
          Returned(<<"slice", start>>,
                   GetItemSlice(sources, dataset, start, IntArg(DatasetLen(dataset)), NoneArg))
    /\ UNCHANGED memo

\* len(dataset)
FrozenLen ==
    /\ Returned(<<"len">>, DatasetLen(dataset))
    /\ UNCHANGED memo

\* dataset.features
FrozenFeatures ==
    /\ Returned(<<"features">>, Features(dataset))
    /\ UNCHANGED memo

\* dataset.labels
FrozenLabels ==
    /\ Returned(<<"labels">>, CachedValue(memo, "labels", UniqueLabels(dataset)))
    /\ memo' = CachedStore(memo, "labels", UniqueLabels(dataset))

\* dataset.class_weights
FrozenClassWeights ==
    /\ Returned(<<"class_weights">>, CachedValue(memo, "class_weights", ClassWeights(dataset)))
    /\ memo' = CachedStore(memo, "class_weights", ClassWeights(dataset))

InitFrozen ==
    /\ FrozenInit
    /\ LoaderIdle /\ AlignIdle /\ StratIdle /\ GenIdle /\ WeightIdle /\ CollocateIdle /\ CacheIdle
    /\ RepeatIdle /\ SharedIdle
NextFrozen ==
    \/ FrozenGetItem \/ FrozenGetSlice \/ FrozenLen
    \/ FrozenFeatures \/ FrozenLabels \/ FrozenClassWeights
SpecFrozen == InitFrozen /\ [][NextFrozen]_vars

-----------------------------------------------------------------------------
(***************************************************************************)
(* linecache: the module imported at data.py:1 keeps one dictionary,       *)
(* linecache.cache, for the whole process.  getline(filename, lineno)      *)
(* answers from the entry of filename when there is one and otherwise      *)
(* reads the whole file from disk and stores it; nothing in data.py ever   *)
(* calls checkcache or clearcache.  generate_datasets builds three         *)
(* GeneExpressionData instances on every data file.                        *)
(***************************************************************************)
MaxVersion == 1     \* a data file's contents are one of the versions 0..MaxVersion
Files == {1, 2}
Readers == {1, 2}

\* the lines of a data file in version v: a header line and two sample lines
FileVersion(v) == <<HeaderLine, <<v, v>>, <<v + 1, v + 1>>>>

\* linecache.getlines(filename): the cached lines if filename has an entry,
\* else updatecache(filename), which reads the file and stores its lines
CacheHit(c, filename) == filename \in DOMAIN c
GetLines(c, files, filename) == IF CacheHit(c, filename) THEN c[filename] ELSE files[filename]
UpdateCache(c, files, filename) ==
    IF CacheHit(c, filename) THEN c
    ELSE [f \in DOMAIN c \cup {filename} |-> IF f = filename THEN files[filename] ELSE c[f]]

CacheInit ==
    \E names \in [Readers -> Files], versions \in [Files -> 0..MaxVersion] :
        /\ disk = [f \in Files |-> FileVersion(versions[f])]
        /\ cache = <<>>
        /\ readers = [r \in Readers |-> [filename |-> names[r], skip |-> 2]]
        /\ seen = [r \in Readers |-> {}]
        /\ lastread = NoResult

\* instance r evaluates linecache.getline(self.filename, data_index + self.skip)
ReaderGetLine(r) ==
    /\ \E data_index \in 0..1 :
          LET filename == readers[r].filename
              lineno == data_index + readers[r].skip
          IN  /\ lastread' = [reader |-> r, filename |-> filename, lineno |-> lineno,
                              hit |-> CacheHit(cache, filename),
                              first |-> filename \notin seen[r],
                              line |-> GetLine(GetLines(cache, disk, filename), lineno),
                              ondisk |-> GetLine(disk[filename], lineno)]
              /\ cache' = UpdateCache(cache, disk, filename)
              /\ seen' = [seen EXCEPT ![r] = @ \cup {filename}]
    /\ UNCHANGED <<disk, readers>>
    /\ UNCHANGED <<loaderVars, alignVars, stratVars, dataVars, genVars, weightVars, collocateVars, callVars>>

\* a data file is written again (clean_data.py writes the processed csv files)
WriteFile ==
    /\ \E f \in Files, v \in 0..MaxVersion :
          /\ disk[f] # FileVersion(v)
          /\ disk' = [disk EXCEPT ![f] = FileVersion(v)]
    /\ UNCHANGED <<cache, readers, seen, lastread>>
    /\ UNCHANGED <<loaderVars, alignVars, stratVars, dataVars, genVars, weightVars, collocateVars, callVars>>

InitCache ==
    CacheInit /\ LoaderIdle /\ AlignIdle /\ StratIdle /\ DataIdle /\ GenIdle /\ WeightIdle /\ CollocateIdle /\ CallIdle
NextCache == (\E r \in Readers : ReaderGetLine(r)) \/ WriteFile
SpecCache == InitCache /\ [][NextCache]_vars

\* C17: cache entries belong to one instance: the first read an instance
\* makes of its file never hits the cache, whatever the other instances have
\* read, and so returns the line as it is on disk at that moment.
C17_CacheOwnedByInstance ==
    (lastread # NoResult /\ lastread.first) =>
        /\ ~lastread.hit
        /\ lastread.line = lastread.ondisk

====
